---- MODULE Spec2Model ----
(***************************************************************************)
(* timekeep: the task lifecycle (start / end / add), the single-slot       *)
(* "current task" file and the SQLite table of finished tasks with its     *)
(* range query, as implemented in src/tasks.rs, src/database.rs and        *)
(* src/cli.rs.                                                             *)
(*                                                                         *)
(* Text is a sequence of ASCII codes, so that the timestamps the program   *)
(* writes (to_rfc3339, serde) and the byte-wise comparison SQLite applies  *)
(* to TEXT columns are computed, not assumed.                              *)
(***************************************************************************)
EXTENDS Integers, Sequences, FiniteSets, TLC

\* Largest number of rows the tasks table holds in the model.
MaxTasks == 2

\* rounded_div is exercised with numerators -MaxNumerator..MaxNumerator and
\* denominators -MaxDenominator..MaxDenominator other than 0.
MaxNumerator == 12
MaxDenominator == 4

-----------------------------------------------------------------------------
(* Option<T> and Result<T>                                                 *)

None == <<>>
Some(x) == <<x>>
IsSome(o) == Len(o) = 1
Unwrap(o) == o[1]

Ok(v) == [ok |-> TRUE, val |-> v, err |-> "none"]
Err(e) == [ok |-> FALSE, val |-> <<>>, err |-> e]

\* An unwrap() or expect() that found nothing: the thread panics instead of
\* returning.
Panic == Err("panic")

\* The error end_with_time builds with anyhow!.
EndBeforeStart == "task cannot have end time before start time"

-----------------------------------------------------------------------------
(* DateTime<Utc>: calendar date, second of the day, nanosecond              *)

Instant(y, mo, d, sod, ns) == [y |-> y, mo |-> mo, d |-> d, sod |-> sod, ns |-> ns]

\* `a < b` on DateTime<Utc>: the derived ordering on (date, time).
InstantLess(a, b) ==
    \/ a.y < b.y
    \/ a.y = b.y /\ a.mo < b.mo
    \/ a.y = b.y /\ a.mo = b.mo /\ a.d < b.d
    \/ a.y = b.y /\ a.mo = b.mo /\ a.d = b.d /\ a.sod < b.sod
    \/ a.y = b.y /\ a.mo = b.mo /\ a.d = b.d /\ a.sod = b.sod /\ a.ns < b.ns

InstantLeq(a, b) == ~InstantLess(b, a)

RECURSIVE ZeroPad(_, _)
\* n written in decimal, zero-padded to w digits ({:0w}).
ZeroPad(n, w) == IF w = 0 THEN <<>> ELSE Append(ZeroPad(n \div 10, w - 1), 48 + (n % 10))

\* The date part of a timestamp: YYYY-MM-DD, the year signed outside 0..9999.
DateText(t) ==
    (IF t.y >= 0 /\ t.y <= 9999 THEN ZeroPad(t.y, 4)
     ELSE IF t.y < 0 THEN <<45>> \o ZeroPad(0 - t.y, 4)
     ELSE <<43>> \o ZeroPad(t.y, 5))
    \o <<45>> \o ZeroPad(t.mo, 2) \o <<45>> \o ZeroPad(t.d, 2)

\* The time part: HH:MM:SS and, when the nanosecond is not zero, the fraction
\* in 3, 6 or 9 digits, whichever is the shortest exact one.
TimeText(t) ==
    ZeroPad(t.sod \div 3600, 2) \o <<58>> \o ZeroPad((t.sod \div 60) % 60, 2)
    \o <<58>> \o ZeroPad(t.sod % 60, 2)
    \o (IF t.ns = 0 THEN <<>>
        ELSE IF t.ns % 1000000 = 0 THEN <<46>> \o ZeroPad(t.ns \div 1000000, 3)
        ELSE IF t.ns % 1000 = 0 THEN <<46>> \o ZeroPad(t.ns \div 1000, 6)
        ELSE <<46>> \o ZeroPad(t.ns, 9))

\* DateTime<Utc>::to_rfc3339: the offset of UTC is written +00:00.
Rfc3339Text(t) == DateText(t) \o <<84>> \o TimeText(t) \o <<43, 48, 48, 58, 48, 48>>

\* serde's Serialize for DateTime<Utc>: the same timestamp ending in Z.
SerdeText(t) == DateText(t) \o <<84>> \o TimeText(t) \o <<90>>

IsDigit(c) == c >= 48 /\ c <= 57

RECURSIVE ParseNat(_)
ParseNat(s) ==
    IF s = <<>> THEN 0
    ELSE 10 * ParseNat(SubSeq(s, 1, Len(s) - 1)) + (s[Len(s)] - 48)

RECURSIVE Pow10(_)
Pow10(k) == IF k = 0 THEN 1 ELSE 10 * Pow10(k - 1)

\* Number of consecutive digits of s from position p on.
DigitRun(s, p) ==
    Cardinality({k \in 1..(Len(s) - p + 1) : \A j \in 0..(k - 1) : IsDigit(s[p + j])})

AllDigits(s, a, b) == \A j \in a..b : IsDigit(s[j])

\* DateTime::parse_from_rfc3339 followed by the conversion to UTC. The model
\* decodes an offset that keeps the instant within its day; the program only
\* ever writes +00:00 and Z.
ParseRfc3339(s) ==
    IF Len(s) < 20 THEN Err("parse")
    ELSE IF ~(AllDigits(s, 1, 4) /\ s[5] = 45 /\ AllDigits(s, 6, 7) /\ s[8] = 45
              /\ AllDigits(s, 9, 10) /\ s[11] \in {84, 116, 32}
              /\ AllDigits(s, 12, 13) /\ s[14] = 58 /\ AllDigits(s, 15, 16)
              /\ s[17] = 58 /\ AllDigits(s, 18, 19)) THEN Err("parse")
    ELSE
      LET hasFrac == s[20] = 46
          fracLen == IF hasFrac THEN DigitRun(s, 21) ELSE 0
          used    == IF fracLen > 9 THEN 9 ELSE fracLen
          ns      == IF hasFrac
                     THEN ParseNat(SubSeq(s, 21, 20 + used)) * Pow10(9 - used)
                     ELSE 0
          p       == IF hasFrac THEN 21 + fracLen ELSE 20
          rest    == SubSeq(s, p, Len(s))
          zulu    == rest \in {<<90>>, <<122>>}
          numeric == Len(rest) = 6 /\ rest[1] \in {43, 45} /\ AllDigits(rest, 2, 3)
                     /\ rest[4] = 58 /\ AllDigits(rest, 5, 6)
          off     == IF zulu \/ ~numeric THEN 0
                     ELSE (IF rest[1] = 45 THEN 0 - 1 ELSE 1)
                          * (ParseNat(SubSeq(rest, 2, 3)) * 3600 + ParseNat(SubSeq(rest, 5, 6)) * 60)
          mo      == ParseNat(SubSeq(s, 6, 7))
          d       == ParseNat(SubSeq(s, 9, 10))
          h       == ParseNat(SubSeq(s, 12, 13))
          mi      == ParseNat(SubSeq(s, 15, 16))
          sec     == ParseNat(SubSeq(s, 18, 19))
          sod     == h * 3600 + mi * 60 + sec - off
      IN IF (hasFrac /\ fracLen = 0) \/ ~(zulu \/ numeric) THEN Err("parse")
         ELSE IF mo < 1 \/ mo > 12 \/ d < 1 \/ d > 31 \/ h > 23 \/ mi > 59 \/ sec > 59
              THEN Err("parse")
         ELSE IF sod < 0 \/ sod > 86399 THEN Err("parse")
         ELSE Ok(Instant(ParseNat(SubSeq(s, 1, 4)), mo, d, sod, ns))

RECURSIVE TextLessFrom(_, _, _)
TextLessFrom(a, b, k) ==
    IF k > Len(b) THEN FALSE
    ELSE IF k > Len(a) THEN TRUE
    ELSE IF a[k] = b[k] THEN TextLessFrom(a, b, k + 1)
    ELSE a[k] < b[k]

\* Byte-wise comparison of two texts (SQLite's BINARY collation on TEXT):
\* the first differing byte decides, and a proper prefix is the smaller.
TextLess(a, b) == TextLessFrom(a, b, 1)

-----------------------------------------------------------------------------------------------------------------------------------------------------
(* Values the operations are exercised with                                *)

\* 2022-02-01 00:00:15, the same second and a half, and 00:00:16.
T15 == Instant(2022, 2, 1, 15, 0)
T15h == Instant(2022, 2, 1, 15, 500000000)
T16 == Instant(2022, 2, 1, 16, 0)
Instants == {T15, T15h, T16}

\* The times start and end are given, and the readings of the clock.
Moments == {T15h, T16}

\* A project name with its optional description.
Labels == {<<"acme", None>>, <<"beta", Some("notes")>>}

\* Command-line date/time arguments, by the format that accepts them.
UserText(fmt, t) == [fmt |-> fmt, y |-> t.y, mo |-> t.mo, d |-> t.d, sod |-> t.sod]
UserTexts ==
    { UserText("%Y-%m-%d %H:%M:%S", T15), UserText("%H:%M:%S", T16),
      UserText("unparsable", T15) }

\* Utc::today() when view is called: a day of February in a common and in a
\* leap year, the last day of a year that lies in week 1 of the next ISO
\* year, and two first days of a year that lie in week 53 and in week 52 of
\* the ISO year before.
ViewDates ==
    { [y |-> 2022, mo |-> 2, d |-> 1], [y |-> 2024, mo |-> 2, d |-> 29],
      [y |-> 2024, mo |-> 12, d |-> 31], [y |-> 2021, mo |-> 1, d |-> 1],
      [y |-> 2022, mo |-> 1, d |-> 1] }

\* Start times on those days and on the bounds of their windows.
ViewInstants ==
    { T15, Instant(2024, 3, 1, 0, 0), Instant(2024, 12, 30, 0, 0),
      Instant(2025, 1, 1, 0, 0), Instant(2021, 12, 27, 0, 0) }

\* The texts of the instants above, computed once; any other instant or text
\* is converted on the spot.
Rfc3339Table == [t \in Instants \cup ViewInstants |-> Rfc3339Text(t)]
SerdeTable == [t \in Instants |-> SerdeText(t)]
ParseTable ==
    [s \in {Rfc3339Text(t) : t \in Instants \cup ViewInstants}
            \cup {SerdeText(t) : t \in Instants}
        |-> ParseRfc3339(s)]

to_rfc3339(t) == IF t \in DOMAIN Rfc3339Table THEN Rfc3339Table[t] ELSE Rfc3339Text(t)
serde_datetime(t) == IF t \in Instants THEN SerdeTable[t] ELSE SerdeText(t)
parse_from_rfc3339(s) == IF s \in DOMAIN ParseTable THEN ParseTable[s] ELSE ParseRfc3339(s)

-----
(* src/tasks.rs: CurrentTask and Task                                      *)

CurrentTask_new(project_name, start_time, description) ==
    [project_name |-> project_name, start_time |-> start_time, description |-> description]

\* CurrentTask::start: the start time is Utc::now(), here `clock`.
CurrentTask_start(project_name, description, clock) ==
    [project_name |-> project_name, start_time |-> clock, description |-> description]

Task_new(project_name, start_time, end_time, description) ==
    [project_name |-> project_name, start_time |-> start_time,
     end_time |-> end_time, description |-> description]

\* CurrentTask::end_with_time with the validation removed.
end_with_time_unchecked(self, time) ==
    Ok(Task_new(self.project_name, self.start_time, time, self.description))

end_with_time(self, time) ==
    IF InstantLess(time, self.start_time) THEN Err(EndBeforeStart)
    ELSE Ok(Task_new(self.project_name, self.start_time, time, self.description))

\* impl From<CurrentTask> for Task: the end time is Utc::now(), unvalidated.
Task_from(activity, clock) ==
    [project_name |-> activity.project_name, start_time |-> activity.start_time,
     end_time |-> clock, description |-> activity.description]

CurrentTask_end(self, clock) == Task_from(self, clock)

\* Task::duration, as whole nanoseconds within one day.
Task_duration(self) ==
    (self.end_time.sod - self.start_time.sod) * 1000000000
    + (self.end_time.ns - self.start_time.ns)

\* to_json that writes the start time to the second.
to_json_seconds(self) ==
    [project_name |-> self.project_name,
     start_time |-> SerdeText([self.start_time EXCEPT !.ns = 0]),
     description |-> self.description]

\* serde_json::to_string of a CurrentTask: the content of the current file.
to_json(self) ==
    [project_name |-> self.project_name, start_time |-> serde_datetime(self.start_time),
     description |-> self.description]

\* CurrentTask::save: fs::write replaces the file; the task is returned.
CurrentTask_save(self) == [ret |-> Ok(self), current_file |-> Some(to_json(self))]

\* CurrentTask::load: read the file and decode it.
CurrentTask_load(file) ==
    IF ~IsSome(file) THEN Err("No such file or directory")
    ELSE LET json == Unwrap(file)
             st == parse_from_rfc3339(json.start_time)
         IN IF ~st.ok THEN Err("invalid current task file")
            ELSE Ok(CurrentTask_new(json.project_name, st.val, json.description))

-----------------------------------------------------------------------------
(* src/database.rs: the tasks table of the database file                   *)
(* The database file is None while it holds no tasks table and Some(rows)  *)
(* once the table exists.                                                  *)

table_exists(file) == IsSome(file)

create_tasks_table(file) == Some(<<>>)

Rows(file) == IF IsSome(file) THEN Unwrap(file) ELSE <<>>

\* The row INSERT stores: the instants as to_rfc3339 text.
TaskRow(task) ==
    [project_name |-> task.project_name, start_time |-> to_rfc3339(task.start_time),
     end_time |-> to_rfc3339(task.end_time), description |-> task.description]

\* append_task that puts the new row before the others.
append_task_front(file, task) ==
    LET created == IF ~table_exists(file) THEN create_tasks_table(file) ELSE file
    IN [ret |-> Ok(<<>>), database_file |-> Some(<<TaskRow(task)>> \o Unwrap(created))]

\* append_task on a table that refuses a row equal to one it holds.
append_task_unique(file, task) ==
    LET created == IF ~table_exists(file) THEN create_tasks_table(file) ELSE file
        held == \E k \in 1..Len(Unwrap(created)) : Unwrap(created)[k] = TaskRow(task)
    IN [ret |-> Ok(<<>>),
        database_file |-> IF held THEN created
                          ELSE Some(Append(Unwrap(created), TaskRow(task)))]

append_task(file, task) ==
    LET created == IF ~table_exists(file) THEN create_tasks_table(file) ELSE file
    IN [ret |-> Ok(<<>>), database_file |-> Some(Append(Unwrap(created), TaskRow(task)))]

parse_database_datetime(s) == parse_from_rfc3339(s)

\* The two SELECT statements the program sends: without a WHERE clause, and
\* with WHERE start_time >= '<from>' and start_time < '<to>'.
SelectAll == [where |-> FALSE, from |-> <<>>, to |-> <<>>]
SelectRange(from, to) == [where |-> TRUE, from |-> from, to |-> to]

\* The WHERE clause with the upper bound included: start_time <= '<to>'.
RowSelected_closed(query, r) ==
    query.where => /\ ~TextLess(r.start_time, query.from)
                   /\ ~TextLess(query.to, r.start_time)

\* Whether row r satisfies the statement's WHERE clause: TEXT comparisons.
RowSelected(query, r) ==
    query.where => /\ ~TextLess(r.start_time, query.from)
                   /\ TextLess(r.start_time, query.to)

\* extract_tasks_query: prepare fails when the table is missing; every selected
\* row is decoded, the timestamps with unwrap(), which panics on a bad one.
extract_tasks_query(file, query) ==
    IF ~table_exists(file) THEN Err("no such table: tasks")
    ELSE LET rows == SelectSeq(Unwrap(file), LAMBDA r : RowSelected(query, r))
             bad(r) == ~parse_database_datetime(r.start_time).ok
                       \/ ~parse_database_datetime(r.end_time).ok
         IN IF \E k \in 1..Len(rows) : bad(rows[k]) THEN Panic
            ELSE Ok([k \in 1..Len(rows) |->
                        Task_new(rows[k].project_name,
                                 parse_database_datetime(rows[k].start_time).val,
                                 parse_database_datetime(rows[k].end_time).val,
                                 rows[k].description)])

extract_all_tasks(file) == extract_tasks_query(file, SelectAll)

\* extract_tasks: the bounds are written into the statement with to_rfc3339.
extract_tasks(file, from, to) ==
    extract_tasks_query(file, SelectRange(to_rfc3339(from), to_rfc3339(to)))

-----------------------------------------------------------------------------
(* src/lib.rs, src/tasks.rs: rounded_div                                   *)

Abs(x) == IF x < 0 THEN -x ELSE x

\* The `/` of i64: the quotient truncated toward zero.
TruncDiv(a, b) ==
    IF (a < 0) = (b < 0) THEN Abs(a) \div Abs(b) ELSE -(Abs(a) \div Abs(b))

\* (numerator + (denominator / 2)) / denominator; the sum stays far from the
\* ends of i64 for the arguments used here.
rounded_div(numerator, denominator) ==
    TruncDiv(numerator + TruncDiv(denominator, 2), denominator)

-----------------------------------------------------------------------------
(* src/tasks.rs: start_task and end_current_task                           *)

\* start_task that files a task given no project name under "unnamed".
start_task_naming_empty(project_name, start_time, description, clock) ==
    LET name == IF project_name = "" THEN "unnamed" ELSE project_name
        task == IF IsSome(start_time)
                THEN CurrentTask_new(name, Unwrap(start_time), description)
                ELSE CurrentTask_start(name, description, clock)
    IN CurrentTask_save(task)

start_task(project_name, start_time, description, clock) ==
    LET task == IF IsSome(start_time)
                THEN CurrentTask_new(project_name, Unwrap(start_time), description)
                ELSE CurrentTask_start(project_name, description, clock)
    IN CurrentTask_save(task)

\* end_current_task that saves the closed task whatever `discard` says.
end_current_task_ignoring_discard(file, db, end_time, discard, clock) ==
    IF ~IsSome(file) THEN [ret |-> Ok(None), current_file |-> file, database_file |-> db]
    ELSE LET loaded == CurrentTask_load(file)
             closed == IF IsSome(end_time) THEN end_with_time(loaded.val, Unwrap(end_time))
                       ELSE Ok(CurrentTask_end(loaded.val, clock))
         IN IF ~closed.ok
            THEN [ret |-> closed, current_file |-> file, database_file |-> db]
            ELSE [ret |-> Ok(Some(closed.val)), current_file |-> None,
                  database_file |-> append_task(db, closed.val).database_file]

\* end_current_task without the `exists` check: a missing file is a load error.
end_current_task_no_exists_check(file, db, end_time, discard, clock) ==
    LET loaded == CurrentTask_load(file)
    IN IF ~loaded.ok
       THEN [ret |-> loaded, current_file |-> file, database_file |-> db]
       ELSE LET closed == IF IsSome(end_time)
                          THEN end_with_time(loaded.val, Unwrap(end_time))
                          ELSE Ok(CurrentTask_end(loaded.val, clock))
            IN IF ~closed.ok
               THEN [ret |-> closed, current_file |-> file, database_file |-> db]
               ELSE [ret |-> Ok(Some(closed.val)), current_file |-> None,
                     database_file |-> IF discard THEN db
                                       ELSE append_task(db, closed.val).database_file]

\* end_current_task that removes the current file only after saving the task.
end_current_task_keeping_discarded(file, db, end_time, discard, clock) ==
    IF ~IsSome(file) THEN [ret |-> Ok(None), current_file |-> file, database_file |-> db]
    ELSE LET loaded == CurrentTask_load(file)
             closed == IF IsSome(end_time) THEN end_with_time(loaded.val, Unwrap(end_time))
                       ELSE Ok(CurrentTask_end(loaded.val, clock))
         IN IF ~closed.ok
            THEN [ret |-> closed, current_file |-> file, database_file |-> db]
            ELSE IF discard
            THEN [ret |-> Ok(Some(closed.val)), current_file |-> file, database_file |-> db]
            ELSE [ret |-> Ok(Some(closed.val)), current_file |-> None,
                  database_file |-> append_task(db, closed.val).database_file]

end_current_task(file, db, end_time, discard, clock) ==
    IF ~IsSome(file) THEN [ret |-> Ok(None), current_file |-> file, database_file |-> db]
    ELSE LET loaded == CurrentTask_load(file)
         IN IF ~loaded.ok
            THEN [ret |-> loaded, current_file |-> file, database_file |-> db]
            ELSE LET closed == IF IsSome(end_time)
                               THEN end_with_time(loaded.val, Unwrap(end_time))
                               ELSE Ok(CurrentTask_end(loaded.val, clock))
                 IN IF ~closed.ok
                    THEN [ret |-> closed, current_file |-> file, database_file |-> db]
                    ELSE LET appended == IF ~discard THEN append_task(db, closed.val)
                                         ELSE [ret |-> Ok(<<>>), database_file |-> db]
                         IN [ret |-> Ok(Some(closed.val)),
                             current_file |-> None,
                             database_file |-> appended.database_file]

\* The steps of end_current_task that can return an I/O or database error.
Faults == {"none", "load", "append_task", "remove_file"}

\* CurrentTask::load(&current_file)?
load_step(file, fault) ==
    IF fault = "load" THEN Err("failed to read the current file") ELSE CurrentTask_load(file)

\* The match on end_time: task.end_with_time(t)? or task.end().
close_step(task, end_time, clock) ==
    IF IsSome(end_time) THEN end_with_time(task, Unwrap(end_time))
    ELSE Ok(CurrentTask_end(task, clock))

\* if !discard { database::append_task(&database_file, &task)?; }
append_step(db, task, discard, fault) ==
    IF discard THEN [ret |-> Ok(<<>>), database_file |-> db]
    ELSE IF fault = "append_task" THEN [ret |-> Err("database error"), database_file |-> db]
    ELSE append_task(db, task)

\* The append and fs::remove_file(current_file)?, then Ok(Some(task)).
save_and_remove(file, db, task, discard, fault) ==
    LET appended == append_step(db, task, discard, fault)
    IN IF ~appended.ret.ok
       THEN [ret |-> appended.ret, current_file |-> file, database_file |-> db]
       ELSE IF fault = "remove_file"
       THEN [ret |-> Err("failed to remove the current file"), current_file |-> file,
             database_file |-> appended.database_file]
       ELSE [ret |-> Ok(Some(task)), current_file |-> None,
             database_file |-> appended.database_file]

\* end_current_task when the step `fault` fails: every step is followed by `?`,
\* so the error is returned with whatever the earlier steps have done.
end_current_task_io(file, db, end_time, discard, clock, fault) ==
    IF ~IsSome(file) THEN [ret |-> Ok(None), current_file |-> file, database_file |-> db]
    ELSE IF ~load_step(file, fault).ok
    THEN [ret |-> load_step(file, fault), current_file |-> file, database_file |-> db]
    ELSE IF ~close_step(load_step(file, fault).val, end_time, clock).ok
    THEN [ret |-> close_step(load_step(file, fault).val, end_time, clock),
          current_file |-> file, database_file |-> db]
    ELSE save_and_remove(file, db, close_step(load_step(file, fault).val, end_time, clock).val,
                         discard, fault)

\* The writes in the order that removes the current file first.
end_writes_remove_first(discard) ==
    IF discard THEN <<"remove_file">> ELSE <<"remove_file", "append_task">>

\* The writes end_current_task makes once the task is closed, in the order of
\* its statements: the append unless `discard`, then the removal.
end_writes(discard) ==
    IF discard THEN <<"remove_file">> ELSE <<"append_task", "remove_file">>

-----------------------------------------------------------------------------
(* chrono's calendar: the date arithmetic the view shortcuts are built on   *)

IsLeapYear(y) == (y % 4 = 0 /\ y % 100 # 0) \/ y % 400 = 0

DaysInMonth(y, mo) ==
    IF mo = 2 THEN (IF IsLeapYear(y) THEN 29 ELSE 28)
    ELSE IF mo \in {4, 6, 9, 11} THEN 30 ELSE 31

ValidDate(y, mo, d) == mo \in 1..12 /\ d \in 1..DaysInMonth(y, mo)

\* Days from 1970-01-01 to the date of t.
DayNumber(t) ==
    LET y == IF t.mo <= 2 THEN t.y - 1 ELSE t.y
        era == y \div 400
        yoe == y - era * 400
        mp == IF t.mo > 2 THEN t.mo - 3 ELSE t.mo + 9
        doy == (153 * mp + 2) \div 5 + t.d - 1
        doe == yoe * 365 + yoe \div 4 - yoe \div 100 + doy
    IN era * 146097 + doe - 719468

\* The date that lies n days after 1970-01-01.
DateOfDayNumber(n) ==
    LET z == n + 719468
        era == z \div 146097
        doe == z - era * 146097
        yoe == (doe - doe \div 1460 + doe \div 36524 - doe \div 146096) \div 365
        doy == doe - (365 * yoe + yoe \div 4 - yoe \div 100)
        mp == (5 * doy + 2) \div 153
        d == doy - (153 * mp + 2) \div 5 + 1
        mo == IF mp < 10 THEN mp + 3 ELSE mp - 9
        y == yoe + era * 400 + (IF mo <= 2 THEN 1 ELSE 0)
    IN [y |-> y, mo |-> mo, d |-> d]

\* Datelike::weekday().num_days_from_monday(): 0 for Monday .. 6 for Sunday.
weekday(t) == (DayNumber(t) + 3) % 7

\* The Monday that starts week 1 of ISO year y: the week of January 4.
IsoYearStart(y) ==
    LET jan4 == [y |-> y, mo |-> 1, d |-> 4]
    IN DayNumber(jan4) - weekday(jan4)

\* Datelike::iso_week(): the ISO year and week of the date's Thursday.
iso_week(t) ==
    LET thursday == DateOfDayNumber(DayNumber(t) - weekday(t) + 3)
        monday == DayNumber(t) - weekday(t)
    IN [year |-> thursday.y,
        week |-> (monday - IsoYearStart(thursday.y)) \div 7 + 1]

\* NaiveDate::from_isoywd_opt(year, week, Weekday::Mon): None when the ISO
\* year has no such week.
from_isoywd_opt(year, week) ==
    IF week < 1 \/ week > (IsoYearStart(year + 1) - IsoYearStart(year)) \div 7
    THEN None
    ELSE Some(DateOfDayNumber(IsoYearStart(year) + 7 * (week - 1)))

\* date.and_hms(0, 0, 0) in UTC.
and_hms0(date) == Instant(date.y, date.mo, date.d, 0, 0)

\* t + Duration::days(n).
plus_days(t, n) ==
    LET date == DateOfDayNumber(DayNumber(t) + n)
    IN Instant(date.y, date.mo, date.d, t.sod, t.ns)

\* Datelike::with_day / with_month / with_year: None when no such date exists.
with_day(t, d) == IF ValidDate(t.y, t.mo, d) THEN Some([t EXCEPT !.d = d]) ELSE None
with_month(t, mo) == IF ValidDate(t.y, mo, t.d) THEN Some([t EXCEPT !.mo = mo]) ELSE None
with_year(t, y) == IF ValidDate(y, t.mo, t.d) THEN Some([t EXCEPT !.y = y]) ELSE None

-----------------------------------------------------------------------------
(* src/cli.rs: parse_local_datetime and add                                *)

\* Utc::today(): the date of the clock's reading.
Today(clock) == [y |-> clock.y, mo |-> clock.mo, d |-> clock.d]

\* parse_local_datetime: date and time, date only (midnight), or time only
\* (today's date in UTC); anything else is an error.
parse_local_datetime(text, today) ==
    IF text.fmt \in {"%Y-%m-%d %H:%M:%S", "%Y-%m-%d %H:%M"}
    THEN Ok(Instant(text.y, text.mo, text.d, text.sod, 0))
    ELSE IF text.fmt = "%Y-%m-%d" THEN Ok(Instant(text.y, text.mo, text.d, 0, 0))
    ELSE IF text.fmt \in {"%H:%M:%S", "%H:%M"}
    THEN Ok(Instant(today.y, today.mo, today.d, text.sod, 0))
    ELSE Err("input contains invalid characters")

\* add that hands the two times to Task::new in the wrong order.
add_swapped(db, project_name, start_time, end_time, description, today) ==
    LET st == parse_local_datetime(start_time, today)
        et == parse_local_datetime(end_time, today)
    IN IF ~st.ok THEN [ret |-> st, database_file |-> db]
       ELSE IF ~et.ok THEN [ret |-> et, database_file |-> db]
       ELSE LET task == Task_new(project_name, et.val, st.val, description)
            IN [ret |-> Ok(<<>>), database_file |-> append_task(db, task).database_file]

\* add: both times are parsed, the Task is built with Task::new and appended.
add(db, project_name, start_time, end_time, description, today) ==
    LET st == parse_local_datetime(start_time, today)
        et == parse_local_datetime(end_time, today)
    IN IF ~st.ok THEN [ret |-> st, database_file |-> db]
       ELSE IF ~et.ok THEN [ret |-> et, database_file |-> db]
       ELSE LET task == Task_new(project_name, st.val, et.val, description)
            IN [ret |-> Ok(<<>>), database_file |-> append_task(db, task).database_file]

\* if !*overwrite { tasks::end_current_task(current, database, None, false)? },
\* with none of the steps of end_current_task failing.
start_end_step(file, db, overwrite, clock) ==
    IF ~overwrite THEN end_current_task_io(file, db, None, FALSE, clock, "none")
    ELSE [ret |-> Ok(None), current_file |-> file, database_file |-> db]

\* The match on start_time: Some(parse_local_datetime(st)?) or None.
start_parse_step(start_time, clock2) ==
    IF ~IsSome(start_time) THEN Ok(None)
    ELSE IF ~parse_local_datetime(Unwrap(start_time), Today(clock2)).ok
    THEN parse_local_datetime(Unwrap(start_time), Today(clock2))
    ELSE Ok(Some(parse_local_datetime(Unwrap(start_time), Today(clock2)).val))

\* tasks::start_task(..)? and Ok(()), on the files as the end left them.
start_save_step(ended, started) ==
    IF ~started.ret.ok THEN [ended EXCEPT !.ret = started.ret]
    ELSE [ended EXCEPT !.ret = Ok(<<>>), !.current_file = started.current_file]

\* The steps of start after the end: parse the start time, start the task.
start_after_end(ended, project_name, start_time, description, clock2) ==
    IF ~ended.ret.ok THEN ended
    ELSE IF ~start_parse_step(start_time, clock2).ok
    THEN [ended EXCEPT !.ret = start_parse_step(start_time, clock2)]
    ELSE start_save_step(ended,
                         start_task(project_name, start_parse_step(start_time, clock2).val,
                                    description, clock2))

\* start that tests the overwrite flag the wrong way round.
start_flag_inverted(file, db, project_name, start_time, description, overwrite, clock, clock2) ==
    start_after_end(start_end_step(file, db, ~overwrite, clock),
                    project_name, start_time, description, clock2)

\* start: unless `overwrite`, the running task is first ended at the clock's
\* reading `clock` and saved; then the start time is parsed and start_task is
\* called, at the later reading `clock2`. Each `?` returns the error with
\* whatever the steps before it have written.
start(file, db, project_name, start_time, description, overwrite, clock, clock2) ==
    start_after_end(start_end_step(file, db, overwrite, clock),
                    project_name, start_time, description, clock2)

ViewFilter == {"Current", "All", "Day", "Week", "Month", "Year"}

\* ViewFilter::Week: the Monday of week today.iso_week().week() of the year
\* today.year(); from_isoywd panics when that year has no such week.
Week_window(today) ==
    LET mon == from_isoywd_opt(today.y, iso_week(today).week)
    IN IF ~IsSome(mon) THEN Panic
       ELSE Ok([from |-> and_hms0(Unwrap(mon)), to |-> plus_days(and_hms0(Unwrap(mon)), 7)])

\* The Month window whose end stays in the year of its start.
Month_window_same_year(today) ==
    LET first == Unwrap(with_day(today, 1))
    IN Ok([from |-> first,
           to |-> IF first.mo = 12 THEN [first EXCEPT !.mo = 1]
                  ELSE [first EXCEPT !.mo = first.mo + 1]])

\* ViewFilter::Month: from the first of this month to the first of the next,
\* which in December is the first of January of the year after.
Month_window(today) ==
    LET first == with_day(today, 1)
    IN IF ~IsSome(first) THEN Panic
       ELSE IF Unwrap(first).mo = 12
       THEN LET y == with_year(Unwrap(first), today.y + 1)
            IN IF ~IsSome(y) THEN Panic
               ELSE IF ~IsSome(with_month(Unwrap(y), 1)) THEN Panic
               ELSE Ok([from |-> Unwrap(first), to |-> Unwrap(with_month(Unwrap(y), 1))])
       ELSE LET m == with_month(Unwrap(first), Unwrap(first).mo + 1)
            IN IF ~IsSome(m) THEN Panic
               ELSE Ok([from |-> Unwrap(first), to |-> Unwrap(m)])

\* ViewFilter::Year: from January 1 of this year to January 1 of the next.
Year_window(today) ==
    LET m == with_month(today, 1)
    IN IF ~IsSome(m) THEN Panic
       ELSE IF ~IsSome(with_day(Unwrap(m), 1)) THEN Panic
       ELSE LET first == Unwrap(with_day(Unwrap(m), 1))
            IN IF ~IsSome(with_year(first, first.y + 1)) THEN Panic
               ELSE Ok([from |-> first, to |-> Unwrap(with_year(first, first.y + 1))])

\* view_filter_shortcut that answers Current with the whole table.
view_filter_shortcut_listing_current(db, filter, date) ==
    LET today == and_hms0(date)
        window == CASE filter = "Day" -> Ok([from |-> today, to |-> plus_days(today, 1)])
                    [] filter = "Week" -> Week_window(today)
                    [] filter = "Month" -> Month_window(today)
                    [] OTHER -> Year_window(today)
    IN IF filter \in {"Current", "All"} THEN extract_all_tasks(db)
       ELSE IF ~window.ok THEN window
       ELSE extract_tasks(db, window.val.from, window.val.to)

\* view_filter_shortcut: `date` is Utc::today(). Current is refused, All
\* reads the whole table, the others read the window their arm computes.
view_filter_shortcut(db, filter, date) ==
    LET today == and_hms0(date)
        window == CASE filter = "Day" -> Ok([from |-> today, to |-> plus_days(today, 1)])
                    [] filter = "Week" -> Week_window(today)
                    [] filter = "Month" -> Month_window(today)
                    [] OTHER -> Year_window(today)
    IN IF filter = "Current" THEN Err("cannot view current task in table")
       ELSE IF filter = "All" THEN extract_all_tasks(db)
       ELSE IF ~window.ok THEN window
       ELSE extract_tasks(db, window.val.from, window.val.to)

\* view: what it prints, the current task or the table of tasks. Without
\* --from and --to the filter decides, Current when none is given; with one
\* of them the filter is ignored and the missing bound is year 0 or 9999.
view(file, db, filter, from, to, date) ==
    IF ~IsSome(from) /\ ~IsSome(to)
    THEN LET f == IF IsSome(filter) THEN Unwrap(filter) ELSE "Current"
         IN IF f = "Current" THEN CurrentTask_load(file)
            ELSE view_filter_shortcut(db, f, date)
    ELSE LET lo == IF IsSome(from) THEN parse_local_datetime(Unwrap(from), date)
                   ELSE Ok(Instant(0, 1, 1, 0, 0))
             hi == IF IsSome(to) THEN parse_local_datetime(Unwrap(to), date)
                   ELSE Ok(Instant(9999, 1, 1, 0, 0))
         IN IF ~lo.ok THEN lo
            ELSE IF ~hi.ok THEN hi
            ELSE IF InstantLess(hi.val, lo.val) THEN Err("from should be less than to")
            ELSE extract_tasks(db, lo.val, hi.val)

-----------------------------------------------------------------------------------------------------------------------------------------------------
(* The program as a state machine: one action per operation                *)

VARIABLES
    current_file,   \* None, or Some(the JSON of the running task)
    database_file,  \* None, or Some(the rows of the tasks table)
    op,             \* the operation last called, and whether a task was running then
    ret             \* what it returned

vars == <<current_file, database_file, op, ret>>

\* A fresh installation: no current file, a database without a tasks table.
Init ==
    /\ current_file = None
    /\ database_file = None
    /\ op = [name |-> "none", running |-> FALSE]
    /\ ret = Ok(<<>>)

Call(name) == [name |-> name, running |-> IsSome(current_file)]

\* start_task that first ends and saves the running task.
StartTask_ending_first(project_name, start_time, description, clock) ==
    /\ LET e == end_current_task(current_file, database_file, None, FALSE, clock)
           r == start_task(project_name, start_time, description, clock)
       IN /\ Len(Rows(e.database_file)) <= MaxTasks
          /\ current_file' = r.current_file
          /\ database_file' = e.database_file
          /\ ret' = r.ret
    /\ op' = Call("start_task")

\* Each operation reads the clock (Utc::now()) at most once: `clock`.
StartTask(project_name, start_time, description, clock) ==
    /\ LET r == start_task(project_name, start_time, description, clock)
       IN /\ current_file' = r.current_file
          /\ ret' = r.ret
    /\ op' = Call("start_task")
    /\ UNCHANGED database_file

EndCurrentTask(end_time, discard, clock) ==
    /\ LET r == end_current_task(current_file, database_file, end_time, discard, clock)
       IN /\ Len(Rows(r.database_file)) <= MaxTasks
          /\ current_file' = r.current_file
          /\ database_file' = r.database_file
          /\ ret' = r.ret
    /\ op' = Call("end_current_task")

\* add that also removes the current file.
Add_clearing_slot(project_name, start_time, end_time, description, today) ==
    /\ LET r == add(database_file, project_name, start_time, end_time, description, today)
       IN /\ Len(Rows(r.database_file)) <= MaxTasks
          /\ database_file' = r.database_file
          /\ ret' = r.ret
    /\ op' = Call("add")
    /\ current_file' = None

Add(project_name, start_time, end_time, description, today) ==
    /\ LET r == add(database_file, project_name, start_time, end_time, description, today)
       IN /\ Len(Rows(r.database_file)) <= MaxTasks
          /\ database_file' = r.database_file
          /\ ret' = r.ret
    /\ op' = Call("add")
    /\ UNCHANGED current_file

\* view with the Current filter: CurrentTask::load of the current file.
ViewCurrent ==
    /\ ret' = CurrentTask_load(current_file)
    /\ op' = Call("view_current")
    /\ UNCHANGED <<current_file, database_file>>

OptMoments == {None} \cup {Some(i) : i \in Moments}

\* start_task and end_current_task read the clock only when the time is
\* omitted; with a time given, one reading stands for them all.
ClockFor(time) == IF IsSome(time) THEN {Unwrap(time)} ELSE Moments

Next ==
    \/ \E l \in Labels, st \in OptMoments : \E clock \in ClockFor(st) :
          StartTask(l[1], st, l[2], clock)
    \/ \E et \in OptMoments, discard \in BOOLEAN : \E clock \in ClockFor(et) :
          EndCurrentTask(et, discard, clock)
    \/ \E l \in Labels, st \in UserTexts, et \in UserTexts :
          \E today \in {Today(c) : c \in Moments} : Add(l[1], st, et, l[2], today)
    \/ ViewCurrent

Spec == Init /\ [][Next]_vars

-----------------------------------------------------------------------------
(* The store alone: append_task and the queries of src/database.rs         *)

AppendTask(task) ==
    /\ LET r == append_task(database_file, task)
       IN /\ Len(Rows(r.database_file)) <= MaxTasks
          /\ database_file' = r.database_file
          /\ ret' = r.ret
    /\ op' = Call("append_task")
    /\ UNCHANGED current_file

ExtractTasks(from, to) ==
    /\ ret' = extract_tasks(database_file, from, to)
    /\ op' = Call("extract_tasks")
    /\ UNCHANGED <<current_file, database_file>>

ExtractAllTasks ==
    /\ ret' = extract_all_tasks(database_file)
    /\ op' = Call("extract_all_tasks")
    /\ UNCHANGED <<current_file, database_file>>

Tasks ==
    { Task_new(l[1], st, et, l[2]) : l \in Labels, st \in Instants, et \in Instants }

NextStore ==
    \/ \E task \in Tasks : AppendTask(task)
    \/ \E from \in Instants, to \in Instants : ExtractTasks(from, to)
    \/ ExtractAllTasks

SpecStore == Init /\ [][NextStore]_vars

-----------------------------------------------------------------------------
(* The lifecycle when the file system or the database can fail             *)

\* What the caller of end saw: the call, and the rows the table held then.
CallEnd ==
    [name |-> "end_current_task", running |-> IsSome(current_file),
     rows |-> Len(Rows(database_file))]

EndCurrentTaskIO(end_time, discard, clock, fault) ==
    /\ LET r == end_current_task_io(current_file, database_file, end_time, discard,
                                    clock, fault)
       IN /\ Len(Rows(r.database_file)) <= MaxTasks
          /\ current_file' = r.current_file
          /\ database_file' = r.database_file
          /\ ret' = r.ret
    /\ op' = CallEnd

NextFaults ==
    \/ \E l \in Labels, st \in OptMoments : \E clock \in ClockFor(st) :
          StartTask(l[1], st, l[2], clock)
    \/ \E et \in OptMoments, discard \in BOOLEAN, fault \in Faults :
          \E clock \in ClockFor(et) : EndCurrentTaskIO(et, discard, clock, fault)
    \/ ViewCurrent

SpecFaults == Init /\ [][NextFaults]_vars

-----------------------------------------------------------------------------
(* The store when another program has written to the database file         *)

\* "garbage": a text that is no timestamp.
Garbage == <<103, 97, 114, 98, 97, 103, 101>>

\* Rows the schema accepts (both time columns are unconstrained TEXT) whose
\* start or end time does not decode.
ForeignRows ==
    { [project_name |-> "acme", start_time |-> to_rfc3339(T15), end_time |-> Garbage,
       description |-> None],
      [project_name |-> "acme", start_time |-> Garbage, end_time |-> to_rfc3339(T16),
       description |-> None] }

\* An INSERT into the tasks table made outside the program.
ForeignInsert(row) ==
    /\ table_exists(database_file)
    /\ Len(Rows(database_file)) < MaxTasks
    /\ database_file' = Some(Append(Unwrap(database_file), row))
    /\ op' = Call("foreign_insert")
    /\ ret' = Ok(<<>>)
    /\ UNCHANGED current_file

NextForeign ==
    \/ \E task \in Tasks : AppendTask(task)
    \/ \E row \in ForeignRows : ForeignInsert(row)
    \/ \E from \in Instants, to \in Instants : ExtractTasks(from, to)
    \/ ExtractAllTasks

SpecForeign == Init /\ [][NextForeign]_vars

-----------------------------------------------------------------------------
(* The view command over a database of tasks from several months           *)

ViewTasks == { Task_new("acme", t, t, None) : t \in ViewInstants }

\* The --from and --to arguments of view.
ViewTexts == {None, Some(UserText("%Y-%m-%d %H:%M:%S", T15)), Some(UserText("unparsable", T15))}

CallView(filter, from, to, date) ==
    [name |-> "view", running |-> IsSome(current_file), filter |-> filter,
     range |-> IsSome(from) \/ IsSome(to), today |-> date]

View(filter, from, to, date) ==
    /\ ret' = view(current_file, database_file, filter, from, to, date)
    /\ op' = CallView(filter, from, to, date)
    /\ UNCHANGED <<current_file, database_file>>

NextView ==
    \/ \E task \in ViewTasks : AppendTask(task)
    \/ \E l \in Labels : StartTask(l[1], Some(T15h), l[2], T15h)
    \/ \E filter \in {None} \cup {Some(f) : f \in ViewFilter}, date \in ViewDates :
          View(filter, None, None, date)
    \/ \E from \in ViewTexts, to \in ViewTexts :
          View(Some("Day"), from, to, Today(T15))

SpecView == Init /\ [][NextView]_vars

-----------------------------------------------------------------------------
(* The current file alone: CurrentTask::save and CurrentTask::load         *)

\* Start instants with no fraction and with one of 3, 6 and 9 digits, at both
\* ends of a day and of the four-digit years.
SlotInstants ==
    { T15, T15h, T16,
      Instant(2022, 2, 1, 15, 1000), Instant(2022, 2, 1, 15, 1),
      Instant(1999, 12, 31, 86399, 999999999),
      Instant(1, 1, 1, 0, 0), Instant(9999, 12, 31, 86399, 0) }

OpenTasks ==
    { CurrentTask_new(p, t, d) :
        p \in {"acme", "beta"}, t \in SlotInstants, d \in {None, Some(""), Some("notes")} }

Save(task) ==
    /\ LET r == CurrentTask_save(task)
       IN /\ current_file' = r.current_file
          /\ ret' = r.ret
    /\ op' = Call("save")
    /\ UNCHANGED database_file

Load ==
    /\ ret' = CurrentTask_load(current_file)
    /\ op' = Call("load")
    /\ UNCHANGED <<current_file, database_file>>

NextSlot ==
    \/ \E task \in OpenTasks : Save(task)
    \/ Load

SpecSlot == Init /\ [][NextSlot]_vars

-----------------------------------------------------------------------------
(* The lifecycle together with the queries                                 *)

NextAll ==
    \/ \E l \in Labels, st \in OptMoments : \E clock \in ClockFor(st) :
          StartTask(l[1], st, l[2], clock)
    \/ \E et \in OptMoments, discard \in BOOLEAN : \E clock \in ClockFor(et) :
          EndCurrentTask(et, discard, clock)
    \/ \E l \in Labels, st \in UserTexts, et \in UserTexts :
          \E today \in {Today(c) : c \in Moments} : Add(l[1], st, et, l[2], today)
    \/ ViewCurrent
    \/ \E from \in Instants, to \in Instants : ExtractTasks(from, to)
    \/ ExtractAllTasks

SpecAll == Init /\ [][NextAll]_vars

-----------------------------------------------------------------------------
(* The lifecycle when the project name may be the empty string             *)

\* Project names, the empty one among them, with their descriptions.
NameLabels == {<<"", None>>, <<"", Some("notes")>>, <<"acme", None>>}

NextNames ==
    \/ \E l \in NameLabels, st \in OptMoments : \E clock \in ClockFor(st) :
          StartTask(l[1], st, l[2], clock)
    \/ \E et \in OptMoments, discard \in BOOLEAN : \E clock \in ClockFor(et) :
          EndCurrentTask(et, discard, clock)
    \/ ViewCurrent

SpecNames == Init /\ [][NextNames]_vars

-----------------------------------------------------------------------------
(* The start command of the command line                                   *)

\* The --start-time argument of start.
OptUserTexts == {None} \cup {Some(t) : t \in UserTexts}

\* Two successive readings of the clock, the second at T16.
ClockPairs == { <<c, T16>> : c \in Moments }

\* What the caller of start saw: the flag, and the rows the table held.
CallStart(overwrite) ==
    [name |-> "start", running |-> IsSome(current_file), overwrite |-> overwrite,
     rows |-> Len(Rows(database_file))]

Start(project_name, start_time, description, overwrite, clock, clock2) ==
    /\ LET r == start(current_file, database_file, project_name, start_time,
                      description, overwrite, clock, clock2)
       IN /\ Len(Rows(r.database_file)) <= MaxTasks
          /\ current_file' = r.current_file
          /\ database_file' = r.database_file
          /\ ret' = r.ret
    /\ op' = CallStart(overwrite)

NextCli ==
    \/ \E l \in Labels, st \in OptUserTexts, overwrite \in BOOLEAN, c \in ClockPairs :
          Start(l[1], st, l[2], overwrite, c[1], c[2])
    \/ \E discard \in BOOLEAN : EndCurrentTask(None, discard, T16)
    \/ ViewCurrent

SpecCli == Init /\ [][NextCli]_vars

-----------------------------------------------------------------------------
(* end_current_task one statement at a time                                *)
(* While a call of end is under way, op holds the closed task and the      *)
(* writes still to make; op.todo is empty once the call has returned.      *)

EndOp(discard, task, todo) ==
    [name |-> "end_current_task", running |-> IsSome(current_file), discard |-> discard,
     rows |-> Len(Rows(database_file)), task |-> task, todo |-> todo]

\* No call of end is under way.
AtRest == IF op.name = "end_current_task" THEN op.todo = <<>> ELSE TRUE

\* The call up to the closed task: the exists check, the load, the match on
\* end_time. Each of them can return at once.
EndCall(end_time, discard, clock, fault) ==
    /\ AtRest
    /\ discard \/ Len(Rows(database_file)) < MaxTasks
    /\ LET loaded == load_step(current_file, fault)
           closed == close_step(loaded.val, end_time, clock)
       IN IF ~IsSome(current_file)
          THEN ret' = Ok(None) /\ op' = EndOp(discard, None, <<>>)
          ELSE IF ~loaded.ok
          THEN ret' = loaded /\ op' = EndOp(discard, None, <<>>)
          ELSE IF ~closed.ok
          THEN ret' = closed /\ op' = EndOp(discard, None, <<>>)
          ELSE ret' = ret /\ op' = EndOp(discard, Some(closed.val), end_writes(discard))
    /\ UNCHANGED <<current_file, database_file>>

\* The next write of the call: it fails and the call returns the error, or it
\* is made; after the last one the call returns the closed task.
EndWrite(fails) ==
    /\ ~AtRest
    /\ IF fails
       THEN /\ ret' = Err(IF Head(op.todo) = "append_task" THEN "database error"
                          ELSE "failed to remove the current file")
            /\ op' = [op EXCEPT !.todo = <<>>]
            /\ UNCHANGED <<current_file, database_file>>
       ELSE /\ IF Head(op.todo) = "append_task"
               THEN /\ database_file' = append_task(database_file, Unwrap(op.task)).database_file
                    /\ UNCHANGED current_file
               ELSE /\ current_file' = None
                    /\ UNCHANGED database_file
            /\ op' = [op EXCEPT !.todo = Tail(op.todo)]
            /\ ret' = IF Tail(op.todo) = <<>> THEN Ok(op.task) ELSE ret

\* The process is killed between two statements of the call.
EndInterrupted ==
    /\ ~AtRest
    /\ op' = [op EXCEPT !.todo = <<>>]
    /\ ret' = Err("interrupted")
    /\ UNCHANGED <<current_file, database_file>>

NextSteps ==
    \/ \E l \in Labels, st \in OptMoments : \E clock \in ClockFor(st) :
          AtRest /\ StartTask(l[1], st, l[2], clock)
    \/ \E et \in OptMoments, discard \in BOOLEAN, fault \in {"none", "load"} :
          \E clock \in ClockFor(et) : EndCall(et, discard, clock, fault)
    \/ \E fails \in BOOLEAN : EndWrite(fails)
    \/ EndInterrupted
    \/ AtRest /\ ViewCurrent

SpecSteps == Init /\ [][NextSteps]_vars

-----------------------------------------------------------------------------
(* rounded_div applied to small integers of either sign                    *)

Numerators == (-MaxNumerator)..MaxNumerator
Denominators == ((-MaxDenominator)..MaxDenominator) \ {0}

RoundedDiv(numerator, denominator) ==
    /\ ret' = Ok(rounded_div(numerator, denominator))
    /\ op' = [name |-> "rounded_div", running |-> IsSome(current_file),
              numerator |-> numerator, denominator |-> denominator]
    /\ UNCHANGED <<current_file, database_file>>

NextDiv == \E n \in Numerators, d \in Denominators : RoundedDiv(n, d)

SpecDiv == Init /\ [][NextDiv]_vars

-----------------------------------------------------------------------------
(* Properties                                                              *)

\* The finished tasks the database holds, decoded, in row order.
StoredTasks(file) == IF table_exists(file) THEN extract_all_tasks(file).val ELSE <<>>

\* The task the current file holds.
RunningTask(file) == CurrentTask_load(file).val

\* The instant a task closed by end(end_time) at clock reading `clock` ends at.
EndInstant(end_time, clock) == IF IsSome(end_time) THEN Unwrap(end_time) ELSE clock

\* C1: end on a running task with an explicit end time strictly before the
\* task's start time returns the end-before-start error; the current file is
\* untouched, still decodes to the same task, and the database is untouched.
C1_EndBeforeStartRejected ==
    [][\A et \in Moments, discard \in BOOLEAN :
          ( /\ IsSome(current_file)
            /\ InstantLess(et, RunningTask(current_file).start_time)
            /\ EndCurrentTask(Some(et), discard, et) )
          => /\ ret' = Err(EndBeforeStart)
             /\ current_file' = current_file
             /\ CurrentTask_load(current_file') = Ok(RunningTask(current_file))
             /\ database_file' = database_file]_vars

\* A rejected end has just returned and the task is still running.
C1_Witness ==
    /\ op.name = "end_current_task" /\ op.running
    /\ ret = Err(EndBeforeStart)
    /\ CurrentTask_load(current_file).ok

\* C2: start(p, T, d) returns the task {p, T, d}; a successful
\* end(Some(E), discard = false) with E >= T right after it appends exactly the
\* record {p, T, E, d} after the records already stored, removes the current
\* file and returns that record.
C2_StartThenEndAppendsRecord ==
    [][ /\ \A l \in Labels, st \in OptMoments : \A clock \in ClockFor(st) :
              StartTask(l[1], st, l[2], clock)
              => ret' = Ok(CurrentTask_new(l[1], EndInstant(st, clock), l[2]))
        /\ \A E \in Moments :
              ( /\ op.name = "start_task" /\ ret.ok
                /\ InstantLeq(ret.val.start_time, E)
                /\ EndCurrentTask(Some(E), FALSE, E)
                /\ ret'.ok )
              => LET record == Task_new(ret.val.project_name, ret.val.start_time,
                                        E, ret.val.description)
                 IN /\ StoredTasks(database_file')
                          = Append(StoredTasks(database_file), record)
                    /\ ~IsSome(current_file')
                    /\ ret' = Ok(Some(record)) ]_vars

\* A non-discarding end has returned the record now stored last, after another.
C2_Witness ==
    /\ op.name = "end_current_task" /\ op.running
    /\ ret.ok /\ IsSome(ret.val)
    /\ ~IsSome(current_file)
    /\ Len(StoredTasks(database_file)) = 2
    /\ StoredTasks(database_file)[2] = Unwrap(ret.val)
    /\ InstantLess(Unwrap(ret.val).start_time, Unwrap(ret.val).end_time)

\* C3: a successful end with discard = true leaves the database as it was,
\* removes the current file and returns the closed task built from the open
\* task and the end time.
C3_DiscardLeavesStore ==
    [][\A et \in OptMoments : \A clock \in ClockFor(et) :
          (IsSome(current_file) /\ EndCurrentTask(et, TRUE, clock) /\ ret'.ok)
          => /\ database_file' = database_file
             /\ ~IsSome(current_file')
             /\ ret' = Ok(Some(Task_new(RunningTask(current_file).project_name,
                                        RunningTask(current_file).start_time,
                                        EndInstant(et, clock),
                                        RunningTask(current_file).description)))]_vars

\* A discarding end has returned a closed task that is not in the database.
C3_Witness ==
    /\ op.name = "end_current_task" /\ op.running
    /\ ret.ok /\ IsSome(ret.val)
    /\ ~IsSome(current_file)
    /\ \A k \in 1..Len(StoredTasks(database_file)) :
          StoredTasks(database_file)[k] # Unwrap(ret.val)

\* C4: with no task running, end returns Ok(None) whatever its arguments and
\* changes neither the current file nor the database; a successful end leaves
\* no task running, so an end right after it is such a call.
C4_EndWhenIdleIsNone ==
    [][ /\ \A et \in OptMoments, discard \in BOOLEAN : \A clock \in ClockFor(et) :
              (~IsSome(current_file) /\ EndCurrentTask(et, discard, clock))
              => /\ ret' = Ok(None)
                 /\ current_file' = current_file
                 /\ database_file' = database_file
        /\ (op'.name = "end_current_task" /\ ret'.ok) => ~IsSome(current_file') ]_vars

\* An end called with nothing running has returned None, a record being stored.
C4_Witness ==
    /\ op.name = "end_current_task" /\ ~op.running
    /\ ret = Ok(None)
    /\ ~IsSome(current_file)
    /\ Len(Rows(database_file)) >= 1

\* C5: start while a task is running succeeds, replaces the content of the
\* current file by the new task and leaves the database alone; whenever end
\* adds to the database it adds one record, that of the task then in the
\* current file, and add adds the record of its own arguments, so a replaced
\* task never reaches the database.
C5_StartReplacesRunningTask ==
    [][ /\ \A l \in Labels, st \in OptMoments : \A clock \in ClockFor(st) :
              ( /\ op'.name = "start_task" /\ IsSome(current_file)
                /\ StartTask(l[1], st, l[2], clock) )
              => /\ ret'.ok
                 /\ CurrentTask_load(current_file')
                       = Ok(CurrentTask_new(l[1], EndInstant(st, clock), l[2]))
                 /\ database_file' = database_file
        /\ \A et \in OptMoments, discard \in BOOLEAN : \A clock \in ClockFor(et) :
              ( /\ op'.name = "end_current_task" /\ database_file' # database_file
                /\ EndCurrentTask(et, discard, clock) )
              => /\ IsSome(current_file)
                 /\ StoredTasks(database_file')
                       = Append(StoredTasks(database_file),
                                Task_new(RunningTask(current_file).project_name,
                                         RunningTask(current_file).start_time,
                                         EndInstant(et, clock),
                                         RunningTask(current_file).description))
        /\ \A l \in Labels, st \in UserTexts, et \in UserTexts :
           \A today \in {Today(c) : c \in Moments} :
              ( /\ op'.name = "add" /\ database_file' # database_file
                /\ Add(l[1], st, et, l[2], today) )
              => StoredTasks(database_file')
                    = Append(StoredTasks(database_file),
                             Task_new(l[1], parse_local_datetime(st, today).val,
                                      parse_local_datetime(et, today).val, l[2])) ]_vars

\* A start called while a task was running has returned; nothing is stored.
C5_Witness ==
    /\ op.name = "start_task" /\ op.running
    /\ ret.ok
    /\ CurrentTask_load(current_file) = Ok(ret.val)
    /\ Len(Rows(database_file)) = 0

\* C6: every record in the database ends no earlier than it starts.
C6_StoredEndNotBeforeStart ==
    \A k \in 1..Len(StoredTasks(database_file)) :
        InstantLeq(StoredTasks(database_file)[k].start_time,
                   StoredTasks(database_file)[k].end_time)

\* C7: add with an end time strictly before the start time returns the
\* end-before-start error and stores nothing; with the two equal it succeeds
\* and stores one record.
C7_AddValidatesOrder ==
    [][\A l \in Labels, st \in UserTexts, et \in UserTexts :
       \A today \in {Today(c) : c \in Moments} :
          ( /\ op'.name = "add"
            /\ parse_local_datetime(st, today).ok /\ parse_local_datetime(et, today).ok
            /\ Add(l[1], st, et, l[2], today) )
          => LET started == parse_local_datetime(st, today).val
                 ended == parse_local_datetime(et, today).val
             IN /\ InstantLess(ended, started)
                     => ret' = Err(EndBeforeStart) /\ database_file' = database_file
                /\ ended = started
                     => ret'.ok /\ Len(Rows(database_file')) = Len(Rows(database_file)) + 1
      ]_vars

\* C8: end with the end time omitted, when the running task starts later than
\* the clock's reading, returns the end-before-start error and changes neither
\* the current file nor the database.
C8_DefaultEndValidatesOrder ==
    [][\A discard \in BOOLEAN, clock \in Moments :
          ( /\ op'.name = "end_current_task" /\ IsSome(current_file)
            /\ InstantLess(clock, RunningTask(current_file).start_time)
            /\ EndCurrentTask(None, discard, clock) )
          => /\ ret' = Err(EndBeforeStart)
             /\ current_file' = current_file
             /\ database_file' = database_file]_vars

\* C9: add leaves the current file exactly as it was, running or not; whether
\* it succeeds depends on its arguments alone (both times parse), and then
\* the database gains exactly one record after those it held, and is
\* unchanged otherwise.
C9_AddBypassesSlot ==
    [][(op'.name = "add") =>
       \A l \in Labels, st \in UserTexts, et \in UserTexts :
       \A today \in {Today(c) : c \in Moments} :
          Add(l[1], st, et, l[2], today)
          => /\ current_file' = current_file
             /\ IF parse_local_datetime(st, today).ok /\ parse_local_datetime(et, today).ok
                THEN /\ ret'.ok
                     /\ Len(Rows(database_file')) = Len(Rows(database_file)) + 1
                     /\ SubSeq(Rows(database_file'), 1, Len(Rows(database_file)))
                           = Rows(database_file)
                ELSE ~ret'.ok /\ database_file' = database_file ]_vars

\* An add called while a task was running has succeeded; the task still runs.
C9_Witness ==
    /\ op.name = "add" /\ op.running
    /\ ret.ok
    /\ CurrentTask_load(current_file).ok
    /\ Len(Rows(database_file)) >= 1

\* The records of `tasks` whose start time lies in [from, to), in order.
InWindow(tasks, from, to) ==
    SelectSeq(tasks, LAMBDA task : /\ InstantLeq(from, task.start_time)
                                   /\ InstantLess(task.start_time, to))

\* C10: for every content of the database and all instants from and to,
\* extract_tasks(from, to) returns exactly the stored records whose start
\* time t satisfies from <= t < to, each once, in insertion order.
C10_RangeQueryWindow ==
    [][\A from \in Instants, to \in Instants :
          (op'.name = "extract_tasks" /\ ExtractTasks(from, to))
          => ret' = Ok(InWindow(StoredTasks(database_file), from, to))]_vars

\* Once the tasks table exists, extract_tasks returns exactly the window.
RangeQueryWindowOnTable ==
    [][\A from \in Instants, to \in Instants :
          (op'.name = "extract_tasks" /\ table_exists(database_file)
             /\ ExtractTasks(from, to))
          => ret' = Ok(InWindow(StoredTasks(database_file), from, to))]_vars

\* The records a query result holds: none when the query failed.
Returned(result) == IF result.ok THEN result.val ELSE <<>>

\* Whether the results `ab` and `bc` of the queries over [a, b) and [b, c)
\* split the result `ac` of the query over [a, c) at the instant b.
Tiles(ab, bc, ac, b) ==
    /\ ab.ok = ac.ok
    /\ bc.ok = ac.ok
    /\ Returned(ab) = SelectSeq(Returned(ac), LAMBDA t : InstantLess(t.start_time, b))
    /\ Returned(bc) = SelectSeq(Returned(ac), LAMBDA t : InstantLeq(b, t.start_time))

\* C11: for all instants a <= b <= c the queries over [a, b) and [b, c) fail
\* or succeed together with the query over [a, c); the first returns, in the
\* same order, exactly the records of the result over [a, c) that start
\* before b and the second exactly those that start at b or later. So every
\* record of [a, c) is in one of the two results and none is in both.
C11_RangeTiling ==
    \A a \in Instants, b \in Instants, c \in Instants :
        (InstantLeq(a, b) /\ InstantLeq(b, c))
        => Tiles(extract_tasks(database_file, a, b),
                 extract_tasks(database_file, b, c),
                 extract_tasks(database_file, a, c), b)

\* The database holds a record starting at T15 and one starting exactly at
\* T15h; the query over [T15, T15h) has just returned the first alone, and the
\* one over [T15h, T16) returns the second alone.
C11_Witness ==
    /\ op.name = "extract_tasks"
    /\ ret = extract_tasks(database_file, T15, T15h)
    /\ ret.ok /\ Len(ret.val) = 1 /\ ret.val[1].start_time = T15
    /\ Len(Returned(extract_tasks(database_file, T15h, T16))) = 1
    /\ Returned(extract_tasks(database_file, T15h, T16))[1].start_time = T15h
    /\ Len(Returned(extract_tasks(database_file, T15, T16))) = 2

\* Whether `a` is an initial segment of `b`.
IsPrefix(a, b) == Len(a) <= Len(b) /\ SubSeq(b, 1, Len(a)) = a

\* C12: whatever the operation, the records extract_all_tasks returned before
\* it are an initial segment of those it returns after it; start, view and the
\* queries leave the database alone; a successful add puts one more row in
\* the table even when an equal row is there; and extract_all_tasks returns
\* one record per row of the table, the k-th decoded from the k-th row.
C12_StoreAppendOnly ==
    [][ /\ \/ database_file' = database_file
           \/ /\ IsPrefix(Returned(extract_all_tasks(database_file)),
                          Returned(extract_all_tasks(database_file')))
              /\ IsPrefix(Rows(database_file), Rows(database_file'))
        /\ op'.name \in {"start_task", "view_current", "extract_tasks", "extract_all_tasks"}
              => database_file' = database_file
        /\ (op'.name = "add" /\ ret'.ok)
              => Len(Rows(database_file')) = Len(Rows(database_file)) + 1
        /\ (op'.name = "extract_all_tasks" /\ table_exists(database_file))
              => /\ ret'.ok
                 /\ Len(ret'.val) = Len(Rows(database_file))
                 /\ \A k \in 1..Len(ret'.val) : TaskRow(ret'.val[k]) = Rows(database_file)[k]
      ]_vars

\* extract_all_tasks has returned two equal records, one for each of two
\* equal rows.
C12_Witness ==
    /\ op.name = "extract_all_tasks"
    /\ ret.ok /\ Len(ret.val) = 2
    /\ ret.val[1] = ret.val[2]
    /\ Len(Rows(database_file)) = 2

\* `t` moved n seconds later within its day.
PlusSeconds(t, n) == [t EXCEPT !.sod = @ + n]

\* Nanoseconds from a to b, both on the same day.
NanosBetween(a, b) == (b.sod - a.sod) * 1000000000 + (b.ns - a.ns)

\* C13: add with both times parsed to start <= end succeeds and stores the
\* record {p, start, end, d} after the stored ones; the query over
\* record's duration() is end - start; the query over [start, start + 1 s)
\* made right after it returns that record.
C13_AddThenQueryDuration ==
    [][ /\ (op'.name = "add") =>
              \A l \in Labels, st \in UserTexts, et \in UserTexts :
              \A today \in {Today(c) : c \in Moments} :
                 ( /\ parse_local_datetime(st, today).ok
                   /\ parse_local_datetime(et, today).ok
                   /\ InstantLeq(parse_local_datetime(st, today).val,
                                 parse_local_datetime(et, today).val)
                   /\ Add(l[1], st, et, l[2], today) )
                 => /\ ret'.ok
                    /\ StoredTasks(database_file')
                          = Append(StoredTasks(database_file),
                                   Task_new(l[1], parse_local_datetime(st, today).val,
                                            parse_local_datetime(et, today).val, l[2]))
                    /\ Task_duration(StoredTasks(database_file')
                                        [Len(StoredTasks(database_file'))])
                          = NanosBetween(parse_local_datetime(st, today).val,
                                         parse_local_datetime(et, today).val)
        /\ (op.name = "add" /\ ret.ok /\ op'.name = "extract_tasks") =>
              LET added == StoredTasks(database_file)[Len(StoredTasks(database_file))]
              IN InstantLeq(added.start_time, added.end_time) =>
                 \A from \in Instants, to \in Instants :
                    ( /\ from = added.start_time /\ to = PlusSeconds(from, 1)
                      /\ ExtractTasks(from, to) )
                    => /\ ret'.ok
                       /\ \E k \in 1..Len(ret'.val) : ret'.val[k] = added
      ]_vars

\* The query over [T15, T15 + 1 s) has returned the record add stored, which
\* starts at T15 and lasts one second.
C13_Witness ==
    /\ op.name = "extract_tasks"
    /\ ret = extract_tasks(database_file, T15, PlusSeconds(T15, 1))
    /\ ret.ok /\ Len(ret.val) >= 1
    /\ ret.val[Len(ret.val)] = Task_new("acme", T15, T16, None)
    /\ Task_duration(ret.val[Len(ret.val)]) = 1000000000

\* C14: save returns the task it was given and leaves in the current file
\* that task alone, whatever the file held; load of the file then returns a
\* task equal to it in project name, start time and description.
C14_SaveLoadRoundTrip ==
    [][ /\ \A task \in OpenTasks :
              (op'.name = "save" /\ Save(task))
              => /\ ret' = Ok(task)
                 /\ current_file' = CurrentTask_save(task).current_file
                 /\ CurrentTask_load(current_file').ok
                 /\ CurrentTask_load(current_file').val.project_name = task.project_name
                 /\ CurrentTask_load(current_file').val.start_time = task.start_time
                 /\ CurrentTask_load(current_file').val.description = task.description
        /\ (op.name = "save" /\ ret.ok /\ op'.name = "load")
              => ret' = ret ]_vars

\* load has just returned the task last saved over another one: it starts at
\* a nanosecond that needs all nine digits and has a description.
C14_Witness ==
    /\ op.name = "load" /\ op.running
    /\ ret.ok
    /\ ret.val.start_time = Instant(1999, 12, 31, 86399, 999999999)
    /\ ret.val.description = Some("notes")
    /\ Unwrap(current_file) = to_json(ret.val)

\* C15: the current file is absent or decodes to one open task. A successful
\* start leaves it holding the task of that start's arguments; a successful
\* end leaves it absent; an end that fails, add and view leave it as it was.
\* So it goes from absent to present only by start and from present to absent
\* only by a successful end.
C15_LifecycleStates ==
    [][ /\ IsSome(current_file') => CurrentTask_load(current_file').ok
        /\ (op'.name = "start_task") =>
              \A l \in Labels, st \in OptMoments : \A clock \in ClockFor(st) :
                 StartTask(l[1], st, l[2], clock)
                 => /\ ret'.ok
                    /\ CurrentTask_load(current_file')
                          = Ok(CurrentTask_new(l[1], EndInstant(st, clock), l[2]))
        /\ (op'.name = "end_current_task" /\ ret'.ok) => ~IsSome(current_file')
        /\ (op'.name = "end_current_task" /\ ~ret'.ok) => current_file' = current_file
        /\ op'.name \notin {"start_task", "end_current_task"}
              => current_file' = current_file
        /\ (~IsSome(current_file) /\ IsSome(current_file'))
              => op'.name = "start_task" /\ ret'.ok
        /\ (IsSome(current_file) /\ ~IsSome(current_file'))
              => op'.name = "end_current_task" /\ ret'.ok ]_vars

\* A task is running again: it was started with nothing running, after an
\* earlier task had been ended and stored.
C15_Witness ==
    /\ op.name = "start_task" /\ ~op.running
    /\ ret.ok
    /\ CurrentTask_load(current_file) = Ok(ret.val)
    /\ Len(Rows(database_file)) >= 1
    /\ \E k \in 1..Len(StoredTasks(database_file)) :
          InstantLess(StoredTasks(database_file)[k].start_time,
                      StoredTasks(database_file)[k].end_time)

\* C16: when an end on a running task has returned an error and end is called
\* again, the table holds after the second call at most one row more than it
\* held before the first: the task has produced at most one record.
C16_OneRecordPerTask ==
    [][ ( /\ op.name = "end_current_task" /\ op.running /\ ~ret.ok
          /\ op'.name = "end_current_task" )
        => Len(Rows(database_file')) <= op.rows + 1 ]_vars

\* C17: view with the Month filter on any day lists the tasks that start in
\* [00:00 of the first day of that month, 00:00 of the first day of the next
\* month): the next month is January of the following year for a day of
\* December, and March for a day of February, leap year or not.
C17_MonthWindow ==
    [][(op'.name = "view" /\ ~op'.range /\ op'.filter = Some("Month")) =>
       \A date \in ViewDates :
          View(Some("Month"), None, None, date)
          => LET first == Instant(date.y, date.mo, 1, 0, 0)
                 next == IF date.mo = 12 THEN Instant(date.y + 1, 1, 1, 0, 0)
                         ELSE Instant(date.y, date.mo + 1, 1, 0, 0)
             IN /\ Month_window(and_hms0(date)) = Ok([from |-> first, to |-> next])
                /\ ret' = extract_tasks(database_file, first, next) ]_vars

\* On 2024-12-31 the Month filter has listed the task that starts on
\* 2024-12-30 and not the one that starts at 00:00 of 2025-01-01.
C17_Witness ==
    /\ op.name = "view" /\ ~op.range /\ op.filter = Some("Month")
    /\ op.today = [y |-> 2024, mo |-> 12, d |-> 31]
    /\ ret.ok /\ Len(ret.val) = 1
    /\ ret.val[1].start_time = Instant(2024, 12, 30, 0, 0)
    /\ Len(Rows(database_file)) = 2
    /\ StoredTasks(database_file)[2].start_time = Instant(2025, 1, 1, 0, 0)

\* C18: view with the Week filter on any day computes, without failing, the
\* window [M, M + 7 days) where M is 00:00 of the Monday on or before that
\* day, and lists the tasks that start in it.
C18_WeekWindow ==
    [][(op'.name = "view" /\ ~op'.range /\ op'.filter = Some("Week")) =>
       \A date \in ViewDates :
          View(Some("Week"), None, None, date)
          => LET M == plus_days(and_hms0(date), 0 - weekday(date))
             IN /\ Week_window(and_hms0(date)) = Ok([from |-> M, to |-> plus_days(M, 7)])
                /\ ret' = extract_tasks(database_file, M, plus_days(M, 7)) ]_vars

\* C19: view_filter_shortcut refuses the Current filter whatever the database
\* holds, table or not; view with the Current filter, or with no filter, and
\* neither --from nor --to returns what CurrentTask::load returns: the running
\* task, or the not-found error when there is no current file.
C19_CurrentIsNotARange ==
    [][ /\ \A date \in ViewDates :
              view_filter_shortcut(database_file', "Current", date)
                 = Err("cannot view current task in table")
        /\ (op'.name = "view" /\ ~op'.range /\ op'.filter \in {None, Some("Current")}) =>
              \A filter \in {None, Some("Current")}, date \in ViewDates :
                 View(filter, None, None, date)
                 => /\ ret' = IF IsSome(current_file) THEN Ok(RunningTask(current_file))
                              ELSE Err("No such file or directory")
                    /\ ret' = CurrentTask_load(current_file) ]_vars

\* view with the Current filter has returned the running task while the
\* table holds a task.
C19_Witness ==
    /\ op.name = "view" /\ ~op.range /\ op.filter = Some("Current")
    /\ op.running
    /\ ret = Ok(RunningTask(current_file))
    /\ Len(Rows(database_file)) >= 1

\* Whether a row's start or end time does not decode.
Undecodable(r) ==
    ~parse_database_datetime(r.start_time).ok \/ ~parse_database_datetime(r.end_time).ok

\* C20: when a row the query selects does not decode, extract_tasks and
\* extract_all_tasks return an error: neither a sequence of the other rows
\* nor a panic.
C20_CorruptRowFailsQuery ==
    [][ /\ (op'.name = "extract_all_tasks"
              /\ \E k \in 1..Len(Rows(database_file)) : Undecodable(Rows(database_file)[k]))
           => ~ret'.ok /\ ret' # Panic
        /\ (op'.name = "extract_tasks") =>
              \A from \in Instants, to \in Instants :
                 ( /\ ExtractTasks(from, to)
                   /\ \E k \in 1..Len(Rows(database_file)) :
                         /\ Undecodable(Rows(database_file)[k])
                         /\ RowSelected(SelectRange(to_rfc3339(from), to_rfc3339(to)),
                                        Rows(database_file)[k]) )
                 => ~ret'.ok /\ ret' # Panic ]_vars

\* C21 as claimed: start_task with an empty project name returns an error and
\* leaves the current file as it was, so the current file never holds a task
\* with an empty project name.
C21_EmptyNameRejected ==
    [][\A l \in NameLabels, st \in OptMoments : \A clock \in ClockFor(st) :
          (l[1] = "" /\ op'.name = "start_task" /\ StartTask(l[1], st, l[2], clock))
          => /\ ~ret'.ok
             /\ current_file' = current_file
             /\ (IsSome(current_file') => Unwrap(current_file').project_name # "")]_vars

\* C21 as amended: start_task with an empty project name succeeds like any
\* other start. It returns the open task with the empty name, the given start
\* time or the clock's reading, and the description; the current file holds
\* exactly that task afterwards, whatever it held before; the database is
\* untouched.
C21_EmptyNameAccepted ==
    [][\A l \in NameLabels, st \in OptMoments : \A clock \in ClockFor(st) :
          (l[1] = "" /\ op'.name = "start_task" /\ StartTask(l[1], st, l[2], clock))
          => /\ ret' = Ok(CurrentTask_new("", EndInstant(st, clock), l[2]))
             /\ CurrentTask_load(current_file') = ret'
             /\ database_file' = database_file]_vars

\* A task was running under a project name, and start_task with the empty
\* name has just replaced it: the current file holds a nameless task.
C21_Witness ==
    /\ op.name = "start_task"
    /\ op.running
    /\ ret.ok
    /\ IsSome(current_file)
    /\ RunningTask(current_file).project_name = ""
    /\ RunningTask(current_file).description = Some("notes")

\* The open task a start command that succeeds leaves in the current file.
StartedTask(project_name, start_time, description, clock2) ==
    CurrentTask_new(project_name,
                    IF IsSome(start_time)
                    THEN parse_local_datetime(Unwrap(start_time), Today(clock2)).val
                    ELSE clock2,
                    description)

\* C22: a start command that succeeds while a task is running leaves the new
\* task in the current file. Without the overwrite flag the database has
\* gained exactly one row, after the rows it held: the task that was running,
\* with its project, start and description, ended at the clock's reading. With
\* the flag the database is untouched, so the old task is nowhere.
C22_StartEndsRunningTask ==
    [][\A l \in Labels, st \in OptUserTexts, overwrite \in BOOLEAN, c \in ClockPairs :
          ( /\ op'.name = "start"
            /\ op'.overwrite = overwrite
            /\ IsSome(current_file)
            /\ ret'.ok
            /\ Start(l[1], st, l[2], overwrite, c[1], c[2]) )
          => LET old == RunningTask(current_file)
                 saved == Task_new(old.project_name, old.start_time, c[1], old.description)
             IN /\ CurrentTask_load(current_file') = Ok(StartedTask(l[1], st, l[2], c[2]))
                /\ ~overwrite
                     => /\ database_file' = Some(Append(Rows(database_file), TaskRow(saved)))
                        /\ StoredTasks(database_file')
                              = Append(StoredTasks(database_file), saved)
                /\ overwrite => database_file' = database_file]_vars

\* "acme" was running since T15; start of "beta" without the flag at clock
\* reading T16 has just succeeded: the database's new last row is acme's
\* task ended at T16, and the current file holds beta's.
C22_Witness ==
    /\ op.name = "start"
    /\ op.running
    /\ ~op.overwrite
    /\ ret.ok
    /\ Len(Rows(database_file)) = op.rows + 1
    /\ StoredTasks(database_file)[op.rows + 1]
          = Task_new("acme", T15, T16, None)
    /\ RunningTask(current_file).project_name = "beta"

\* C24: a start command that returns an error leaves the current file and
\* the database exactly as they were, also when a task was running and the
\* overwrite flag was not given.
C24_FailedStartChangesNothing ==
    [][(op'.name = "start" /\ ~ret'.ok)
          => current_file' = current_file /\ database_file' = database_file]_vars

\* The call of end under way, or the one last made, closed a task to save.
SavingEnd == op.name = "end_current_task" /\ ~op.discard /\ IsSome(op.task)

\* The current file holds the open task that the call of end closed.
InSlot(file) ==
    /\ IsSome(file)
    /\ CurrentTask_load(file)
          = Ok(CurrentTask_new(Unwrap(op.task).project_name, Unwrap(op.task).start_time,
                               Unwrap(op.task).description))

\* The call of end has added its closed task to the table, as the last row.
InStore(db) ==
    /\ Len(Rows(db)) = op.rows + 1
    /\ Rows(db)[op.rows + 1] = TaskRow(Unwrap(op.task))

\* C23: in an end that saves its task, (1) at every point from the call to
\* after its return, whether it succeeded, failed or was interrupted, the
\* task is in the current file or in the table; (2) the current file is
\* removed only when the table already holds the task; (3) when the append
\* fails, end returns an error with the current file and the database as
\* they were, the current file still holding the open task.
C23_AppendBeforeRemove ==
    /\ [](SavingEnd => InSlot(current_file) \/ InStore(database_file))
    /\ [][(SavingEnd /\ op'.name = "end_current_task" /\ IsSome(current_file)
              /\ ~IsSome(current_file'))
            => InStore(database_file)]_vars
    /\ [][(SavingEnd /\ ~AtRest /\ Head(op.todo) = "append_task" /\ EndWrite(TRUE))
            => /\ ~ret'.ok
               /\ current_file' = current_file
               /\ database_file' = database_file
               /\ InSlot(current_file')]_vars

\* An end that saves its task has appended it and was then interrupted, or
\* failed to remove the current file: the task is in the table and still in
\* the current file.
C23_Witness ==
    /\ SavingEnd
    /\ AtRest
    /\ ~ret.ok
    /\ InStore(database_file)
    /\ InSlot(current_file)

\* append_task succeeds; on a database without the tasks table it creates the
\* table, which then holds the one row, and on a database with the table it
\* adds its row after the rows the table holds.
AppendCreatesTableOnce ==
    [][\A task \in Tasks :
          (op'.name = "append_task" /\ AppendTask(task))
          => /\ ret'.ok
             /\ table_exists(database_file')
             /\ Rows(database_file') = Append(Rows(database_file), TaskRow(task))]_vars

\* C25: the store needs no initialization step. The first append creates the
\* table and succeeds and later appends keep its rows, and a query on a
\* database to which nothing has ever been appended returns the empty
\* sequence, not an error.
C25_NoInitializationStep ==
    /\ AppendCreatesTableOnce
    /\ [][(op'.name \in {"extract_tasks", "extract_all_tasks"}
              /\ ~table_exists(database_file))
            => ret' = Ok(<<>>)]_vars

\* n / d rounded to the nearest integer, a tie going away from zero.
NearestInteger(n, d) ==
    LET q == Abs(n) \div Abs(d)
        r == Abs(n) % Abs(d)
        m == IF 2 * r >= Abs(d) THEN q + 1 ELSE q
    IN IF (n < 0) = (d < 0) THEN m ELSE -m

\* C26: rounded_div(n, d) is n / d rounded to the nearest integer, ties away
\* from zero, for every numerator and every non-zero denominator of the
\* range, of either sign; so rounded_div(-3, 2) is -2.
C26_RoundedDivNearest ==
    op.name = "rounded_div"
        => ret = Ok(NearestInteger(op.numerator, op.denominator))

=============================================================================
